---- MODULE Spec2Model ----
(***************************************************************************)
(* A model of the report_papers agent (privet-kitty/notify-papers).       *)
(*                                                                         *)
(* Part I   TeamsNotifier.send_paper_notification: translation of the      *)
(*          abstracts, the bisection over prefix lengths, the final        *)
(*          render and the webhook delivery (teams_notifier.py,            *)
(*          translator.py).                                                *)
(* Part II  The seen-paper store across pipeline runs (s3_storage.py and   *)
(*          the storage calls of main.lambda_handler).                     *)
(*                                                                         *)
(* Texts are modelled by what the code reads of them: whether they are     *)
(* empty or whitespace-only, their language, and the number of bytes they  *)
(* take in the JSON document.                                              *)
(***************************************************************************)
EXTENDS Integers, Sequences, FiniteSets, TLC

VARIABLES
    \* ---- Part I: TeamsNotifier / Translator
    target_language,    \* Translator.target_language
    pc,                 \* position inside send_paper_notification
    relevant_papers,    \* argument: sequence of papers
    research_topics,    \* argument: sequence of topic byte lengths
    translated_papers,  \* local of send_paper_notification
    ok, ng,             \* locals of _find_optimal_paper_count
    probed,             \* prefix lengths rendered and measured by the search
    optimal_count,      \* local of send_paper_notification
    card_content,       \* the card most recently rendered
    measured,           \* payload_size of every fitting probe, by prefix length
    sent,               \* the cards handed to requests.post, in order
    transport_outcome,  \* what the last requests.post did
    result,             \* return value of send_paper_notification
    translate_calls,    \* calls of Translator.translate_text in this invocation
    service_log,        \* outcomes of translate_client.translate_text calls
    render_calls,       \* calls of _generate_papers_card in this invocation
    history,            \* dispatcher states passed through in this invocation
    clock,              \* datetime.now(), in seconds since the call began
    probe_cards,        \* the cards rendered by the probes of the search
    raised,             \* the step of this invocation that raised, if any
    \* ---- Part II: S3Storage / lambda_handler
    seen_object,        \* seen_papers.json: paper id -> timestamp (day)
    now,                \* datetime.now(), in days
    run_pc,             \* position inside lambda_handler
    papers,             \* papers returned by the search of this run
    new_papers,         \* result of filter_new_papers in this run
    passed_new,         \* ids passed on as new by earlier completed runs
    repeated,           \* ids passed on as new in two different runs
    storage_faults,     \* kinds of S3 calls that failed so far
    runs,               \* lambda_handler runs started so far
    last_run,           \* day on which the latest run started
    spaced,             \* every run started < 30 days after the one before
    \* ---- Part III: one paper container of the card
    item,               \* (paper, relevance, translated_abstract) to render
    block,              \* the container rendered for it
    \* ---- Part IV: LLMClient.filter_relevant_papers
    llm_pc,             \* position inside filter_relevant_papers
    llm_papers,         \* argument: number of papers (paper i has id i)
    threshold,          \* argument, in hundredths
    max_papers,         \* argument
    evaluated,          \* papers the loop of evaluate_multiple_papers has seen
    results,            \* local of evaluate_multiple_papers
    filtered,           \* return value of filter_relevant_papers
    \* ---- Part V: two runs calling S3Storage.update_seen_papers
    shared_object,      \* seen_papers.json as both runs see it
    upd_pc,             \* per run: position inside update_seen_papers
    upd_new,            \* per run: argument new_paper_ids
    upd_existing,       \* per run: local existing_papers
    upd_ret,            \* per run: return value
    upd_faults,         \* kinds of S3 calls that failed
    \* ---- Part VI: EmailNotifier.send_paper_notification
    em_language,        \* EmailNotifier.target_language
    em_pc,              \* position inside send_paper_notification
    em_papers,          \* argument: the summaries of the relevances
    em_html,            \* translated summaries put into the HTML body
    em_text,            \* translated summaries put into the text body
    em_service_calls,   \* translate_client.translate_text calls, per paper
    em_result,          \* return value
    \* ---- Part VII: S3Storage called over time
    st_object,          \* seen_papers.json: paper id -> timestamp (day)
    st_now,             \* datetime.now(), in days
    st_recorded,        \* per id: the day it was last passed to an update
    st_last,            \* the latest call: arguments, object before, results
    \* ---- Part VIII: ArxivClient.search_multiple_topics
    sr_pc,              \* position inside search_multiple_topics
    sr_topics,          \* argument: number of topics
    sr_log,             \* what search_papers did for each topic so far
    all_papers,         \* local
    seen_ids,           \* local
    sr_result,          \* return value
    \* ---- Part IX: lambda_handler, run after run
    h_pc,               \* position inside lambda_handler
    h_env,              \* os.environ: which variables are set
    h_object,           \* seen_papers.json: paper id -> timestamp (day)
    h_now,              \* datetime.now(), in days
    h_papers,           \* local papers (ids)
    h_new,              \* local new_papers (ids)
    h_relevant,         \* local relevant_papers (ids)
    h_calls,            \* the collaborator calls of this run, in order
    h_results,          \* local notification_results
    h_raised_at,        \* the step whose exception the except clause caught
    h_build,            \* how building the error notifications ended
    h_response,         \* return value
    h_start_object,     \* seen_papers.json when this run started
    h_prev,             \* the previous run: its new_papers, day, how it ended
    h_runs              \* runs started

tvars == <<target_language, pc, relevant_papers, research_topics,
           translated_papers, ok, ng, probed, optimal_count, card_content,
           measured, sent, transport_outcome, result, translate_calls,
           service_log, render_calls, history, clock, probe_cards, raised>>

svars == <<seen_object, now, run_pc, papers, new_papers, passed_new,
           repeated, storage_faults, runs, last_run, spaced>>

bvars == <<item, block>>

lvars == <<llm_pc, llm_papers, threshold, max_papers, evaluated, results,
           filtered>>

cvars == <<shared_object, upd_pc, upd_new, upd_existing, upd_ret,
           upd_faults>>

evars == <<em_language, em_pc, em_papers, em_html, em_text,
           em_service_calls, em_result>>

dvars == <<st_object, st_now, st_recorded, st_last>>

avars == <<sr_pc, sr_topics, sr_log, all_papers, seen_ids, sr_result>>

hvars == <<h_pc, h_env, h_object, h_now, h_papers, h_new, h_relevant,
           h_calls, h_results, h_raised_at, h_build, h_response,
           h_start_object, h_prev, h_runs>>

nvars == <<dvars, avars, hvars>>

ovars == <<bvars, lvars, cvars, evars, nvars>>

\* What the actions of Part VII leave alone.
notD == <<tvars, svars, bvars, lvars, cvars, evars, avars, hvars>>

\* What the actions of Part VIII leave alone.
notA == <<tvars, svars, bvars, lvars, cvars, evars, dvars, hvars>>

\* What the actions of Part IX leave alone.
notH == <<tvars, svars, bvars, lvars, cvars, evars, dvars, avars>>

vars == <<tvars, svars, ovars>>

(***************************************************************************)
(* Bounds of the model.                                                    *)
(***************************************************************************)
MaxPapers == 3

PaperMetaBytes == 150

\* Byte lengths of the abstracts the callers pass: empty, whitespace-only,
\* an abstract of which two do not fit one card, one that alone exceeds it.
Summaries ==
    { [lang |-> "en", blank |-> TRUE,  bytes |-> 0],
      [lang |-> "en", blank |-> TRUE,  bytes |-> 3],
      [lang |-> "en", blank |-> FALSE, bytes |-> 13000],
      [lang |-> "en", blank |-> FALSE, bytes |-> 28000] }

\* Byte lengths of the texts the translation service answers with.
TranslatedBytes == {900, 14000}

\* Topic lists: the two default topics, one oversized topic.
TopicLists == { <<18, 13>>, <<28000>> }

Languages == {"en", "ja"}

TransportOutcomes == {"ok", "http_error", "network_error", "other_error"}

(***************************************************************************)
(* Helpers.                                                                *)
(***************************************************************************)
RECURSIVE SumSeq(_)
SumSeq(s) == IF s = <<>> THEN 0 ELSE Head(s) + SumSeq(Tail(s))

Abs(x) == IF x < 0 THEN -x ELSE x

Min(a, b) == IF a <= b THEN a ELSE b

Prefix_Last(s, k) == SubSeq(s, Len(s) - k + 1, Len(s))

Prefix(s, k) == SubSeq(s, 1, k)

\* len(str(k)) for the counts of the model
Digits(k) == IF k < 10 THEN 1 ELSE IF k < 100 THEN 2 ELSE 3

\* len(", ".join(parts)) for parts given by their lengths
JoinBytes(parts) ==
    IF parts = <<>> THEN 0 ELSE SumSeq(parts) + 2 * (Len(parts) - 1)

PaperLists ==
    UNION { [1..n -> Summaries] : n \in 0..MaxPapers }

\* The i-th pair of a call: paper i has i + 1 authors, 2 * i key topics and
\* a relevance score of 70, 80, 90, ... hundredths.
MkPapers(summaries) ==
    [i \in 1..Len(summaries) |->
        [id |-> i, summary |-> summaries[i], meta |-> PaperMetaBytes,
         authors |-> [j \in 1..(i + 1) |-> j],
         key_topics |-> [j \in 1..(2 * i) |-> j],
         relevance_score |-> 60 + 10 * i]]

(***************************************************************************)
(* teams_notifier.py: constants and pure functions.                        *)
(***************************************************************************)
MAX_PAYLOAD_SIZE_BYTES == 27 * 1024

\* Bytes of json.dumps(payload) that do not depend on the arguments: the
\* message envelope, the card skeleton, the date line and the footer.
EnvelopeBytes == 769

\* Bytes of one paper container besides its title, link, authors, abstract
\* and topics.
BlockBytes == 505

\* header_text, by the numbers it mentions
HeaderText_GreaterEqual(shown, total_papers) ==
    IF total_papers # 0 /\ total_papers >= shown
    THEN [numbers |-> <<shown, total_papers>>, limit_note |-> TRUE]
    ELSE [numbers |-> <<shown>>, limit_note |-> FALSE]

HeaderText(shown, total_papers) ==
    IF total_papers # 0 /\ total_papers > shown
    THEN [numbers |-> <<shown, total_papers>>, limit_note |-> TRUE]
    ELSE [numbers |-> <<shown>>, limit_note |-> FALSE]

\* "<k> of <n> New Relevant Papers (size limit reached)" or
\* "<k> New Relevant Papers"
HeaderBytes(h) ==
    IF h.limit_note
    THEN Digits(h.numbers[1]) + 4 + Digits(h.numbers[2]) + 41
    ELSE Digits(h.numbers[1]) + 20

\* score_emoji = "🟢" if relevance.relevance_score >= 0.8 else "🟡";
\* scores are hundredths
HIGH_SCORE == 80

PaperBlock_ThreeAuthors(paper, translated_abstract) ==
    [paper       |-> paper.id,
     meta        |-> paper.meta,
     authors     |-> Prefix(paper.authors, Min(3, Len(paper.authors))),
     score_emoji |-> IF paper.relevance_score >= HIGH_SCORE
                     THEN "green" ELSE "yellow",
     abstract    |-> translated_abstract,
     topics      |-> Prefix(paper.key_topics, Min(3, Len(paper.key_topics)))]

\* The container of one (paper, relevance, translated_abstract): authors
\* are ", ".join(paper.authors), topics ", ".join(relevance.key_topics[:3])
PaperBlock(paper, translated_abstract) ==
    [paper       |-> paper.id,
     meta        |-> paper.meta,
     authors     |-> paper.authors,
     score_emoji |-> IF paper.relevance_score >= HIGH_SCORE
                     THEN "green" ELSE "yellow",
     abstract    |-> translated_abstract,
     topics      |-> Prefix(paper.key_topics, Min(3, Len(paper.key_topics)))]

\* date_str and the footer are datetime.now() in fixed-width formats
\* ("%Y-%m-%d", "%Y-%m-%d %H:%M:%S UTC"): `at` is the clock the call reads.
GeneratePapersCard(papers_with_translations, topics, total_papers, at) ==
    [header |-> HeaderText(Len(papers_with_translations), total_papers),
     topics |-> topics,
     generated_at |-> at,
     blocks |-> [i \in 1..Len(papers_with_translations) |->
                   PaperBlock(papers_with_translations[i].paper,
                              papers_with_translations[i].translated_abstract)]]

PayloadSize_NoBlocks(card) ==
    EnvelopeBytes + HeaderBytes(card.header) + JoinBytes(card.topics)

\* len(json.dumps(payload).encode("utf-8"))
PayloadSize(card) ==
    EnvelopeBytes + HeaderBytes(card.header) + JoinBytes(card.topics)
    + SumSeq([i \in 1..Len(card.blocks) |->
                BlockBytes + card.blocks[i].meta + card.blocks[i].abstract.bytes])

SearchStart_NoSentinel(n) == [ok |-> 0, ng |-> n]

SearchStart_FromOne(n) == [ok |-> 1, ng |-> n + 1]

SearchStart_Wide(n) == [ok |-> 0, ng |-> n + 2]

\* ok, ng = 0, len(translated_papers) + 1
SearchStart(n) == [ok |-> 0, ng |-> n + 1]

\* while abs(ok - ng) > 1
SearchContinues(o, g) == Abs(o - g) > 1

Mid_Linear(o, g) == o + 1

\* mid = (ok + ng) // 2
Mid(o, g) == (o + g) \div 2

\* if payload_size <= MAX_PAYLOAD_SIZE_BYTES
Fits(payload_size) == payload_size <= MAX_PAYLOAD_SIZE_BYTES

\* The while loop of _find_optimal_paper_count, run to its end.
RECURSIVE Bisect(_, _, _, _)
Bisect(o, g, items, topics) ==
    IF ~SearchContinues(o, g)
    THEN o
    ELSE LET mid == Mid(o, g)
             payload_size ==
                 PayloadSize(GeneratePapersCard(Prefix(items, mid), topics,
                                                Len(items), 0))
         IN  IF Fits(payload_size)
             THEN Bisect(mid, g, items, topics)
             ELSE Bisect(o, mid, items, topics)

\* _find_optimal_paper_count
FindOptimalPaperCount(items, topics) ==
    IF items = <<>>
    THEN 0
    ELSE LET start == SearchStart(Len(items))
         IN  Bisect(start.ok, start.ng, items, topics)

\* The number of render+measure probes the while loop makes.
RECURSIVE BisectProbes(_, _, _, _)
BisectProbes(o, g, items, topics) ==
    IF ~SearchContinues(o, g)
    THEN 0
    ELSE LET mid == Mid(o, g)
             payload_size ==
                 PayloadSize(GeneratePapersCard(Prefix(items, mid), topics,
                                                Len(items), 0))
         IN  IF Fits(payload_size)
             THEN 1 + BisectProbes(mid, g, items, topics)
             ELSE 1 + BisectProbes(o, mid, items, topics)

\* _find_optimal_paper_count: its number of probes ("if not
\* translated_papers: return 0" makes none)
FindOptimalProbes(items, topics) ==
    IF items = <<>>
    THEN 0
    ELSE LET start == SearchStart(Len(items))
         IN  BisectProbes(start.ok, start.ng, items, topics)

(***************************************************************************)
(* translator.py                                                           *)
(***************************************************************************)
\* What translate_client.translate_text does: it raises, or it answers.
ServiceResponses ==
    { [raised |-> TRUE, bytes |-> 0] }
    \cup { [raised |-> FALSE, bytes |-> b] : b \in TranslatedBytes }

TranslateText_Drop(text, target, response) ==
    IF text.blank \/ target = "en"
    THEN [text |-> text, service |-> <<>>]
    ELSE IF response.raised
    THEN [text |-> [lang |-> "en", blank |-> TRUE, bytes |-> 0],
          service |-> <<"error">>]
    ELSE [text |-> [lang |-> target, blank |-> FALSE, bytes |-> response.bytes],
          service |-> <<"ok">>]

TranslateText_Eager(text, target, response) ==
    IF text.blank
    THEN [text |-> text, service |-> <<>>]
    ELSE IF response.raised
    THEN [text |-> text, service |-> <<"error">>]
    ELSE [text |-> [lang |-> target, blank |-> FALSE, bytes |-> response.bytes],
          service |-> <<"ok">>]

\* translate_text: the text returned and the service calls made
TranslateText(text, target, response) ==
    IF text.blank \/ target = "en"
    THEN [text |-> text, service |-> <<>>]
    ELSE IF response.raised
    THEN [text |-> text, service |-> <<"error">>]
    ELSE [text |-> [lang |-> target, blank |-> FALSE, bytes |-> response.bytes],
          service |-> <<"ok">>]

(***************************************************************************)
(* teams_notifier.py: send_paper_notification, step by step.               *)
(***************************************************************************)
NoCard == [header |-> [numbers |-> <<>>, limit_note |-> FALSE],
           topics |-> <<>>, generated_at |-> 0, blocks |-> <<>>]

TeamsInit ==
    /\ target_language \in Languages
    /\ pc = "idle"
    /\ relevant_papers = <<>>
    /\ research_topics = <<>>
    /\ translated_papers = <<>>
    /\ ok = 0
    /\ ng = 0
    /\ probed = {}
    /\ optimal_count = 0
    /\ card_content = NoCard
    /\ measured = {}
    /\ sent = <<>>
    /\ transport_outcome = "none"
    /\ result = "None"
    /\ translate_calls = 0
    /\ service_log = <<>>
    /\ render_calls = 0
    /\ history = <<>>
    /\ clock = 0
    /\ probe_cards = {}
    /\ raised = "none"

\* The locals and counters of a fresh invocation.
FreshLocals ==
    /\ translated_papers' = <<>>
    /\ ok' = 0
    /\ ng' = 0
    /\ probed' = {}
    /\ optimal_count' = 0
    /\ card_content' = NoCard
    /\ measured' = {}
    /\ sent' = <<>>
    /\ transport_outcome' = "none"
    /\ translate_calls' = 0
    /\ service_log' = <<>>
    /\ render_calls' = 0
    /\ clock' = 0
    /\ probe_cards' = {}
    /\ raised' = "none"

Enter_NoEmptyCheck(ps, ts) ==
    /\ pc = "idle"
    /\ relevant_papers' = ps
    /\ research_topics' = ts
    /\ FreshLocals
    /\ result' = "None"
    /\ history' = <<"Idle">>
    /\ pc' = "translating"
    /\ UNCHANGED <<target_language, svars, ovars>>

\* send_paper_notification is called: "if not relevant_papers: return True"
Enter(ps, ts) ==
    /\ pc = "idle"
    /\ relevant_papers' = ps
    /\ research_topics' = ts
    /\ FreshLocals
    /\ IF ps = <<>>
       THEN /\ result' = "True"
            /\ history' = <<"Idle", "Done">>
            /\ pc' = "done"
       ELSE /\ result' = "None"
            /\ history' = <<"Idle">>
            /\ pc' = "translating"
    /\ UNCHANGED <<target_language, svars, ovars>>

Call ==
    \E summaries \in PaperLists, ts \in TopicLists :
        Enter(MkPapers(summaries), ts)

PrepareStep_Again ==
    /\ pc = "translating"
    /\ Len(translated_papers) < Len(relevant_papers)
    /\ \E response \in ServiceResponses :
         LET paper == relevant_papers[Len(translated_papers) + 1]
             first == TranslateText(paper.summary, target_language, response)
             t     == TranslateText(paper.summary, target_language, response)
         IN  /\ translated_papers' = Append(translated_papers,
                    [paper |-> paper, translated_abstract |-> t.text])
             /\ translate_calls' = translate_calls + 2
             /\ service_log' = service_log \o first.service \o t.service
    /\ UNCHANGED <<target_language, clock, probe_cards, raised,
                   pc, relevant_papers, research_topics, ok,
                   ng, probed, optimal_count, card_content, measured, sent,
                   transport_outcome, result, render_calls, history, svars, ovars>>

\* _prepare_translated_papers: one iteration of its loop
PrepareStep ==
    /\ pc = "translating"
    /\ Len(translated_papers) < Len(relevant_papers)
    /\ \E response \in ServiceResponses :
         LET paper == relevant_papers[Len(translated_papers) + 1]
             t     == TranslateText(paper.summary, target_language, response)
         IN  /\ translated_papers' = Append(translated_papers,
                    [paper |-> paper, translated_abstract |-> t.text])
             /\ translate_calls' = translate_calls + 1
             /\ service_log' = service_log \o t.service
    /\ UNCHANGED <<target_language, clock, probe_cards, raised,
                   pc, relevant_papers, research_topics, ok,
                   ng, probed, optimal_count, card_content, measured, sent,
                   transport_outcome, result, render_calls, history, svars, ovars>>

\* _prepare_translated_papers returns; _find_optimal_paper_count starts
SearchEnter ==
    /\ pc = "translating"
    /\ Len(translated_papers) = Len(relevant_papers)
    /\ LET start == SearchStart(Len(translated_papers))
       IN  /\ ok' = start.ok
           /\ ng' = start.ng
    /\ history' = Append(history, "Searching")
    /\ pc' = "searching"
    /\ UNCHANGED <<target_language, clock, probe_cards, raised,
                   relevant_papers, research_topics,
                   translated_papers, probed, optimal_count, card_content,
                   measured, sent, transport_outcome, result, translate_calls,
                   service_log, render_calls, svars, ovars>>

\* _find_optimal_paper_count: one iteration of the while loop
Probe ==
    /\ pc = "searching"
    /\ SearchContinues(ok, ng)
    /\ LET mid  == Mid(ok, ng)
           card == GeneratePapersCard(Prefix(translated_papers, mid),
                                      research_topics, Len(translated_papers),
                                      clock)
           payload_size == PayloadSize(card)
       IN  /\ card_content' = card
           /\ render_calls' = render_calls + 1
           /\ probed' = probed \cup {mid}
           /\ probe_cards' = probe_cards \cup {card}
           /\ measured' = measured \cup {<<mid, payload_size>>}
           /\ IF Fits(payload_size)
              THEN ok' = mid /\ ng' = ng
              ELSE ng' = mid /\ ok' = ok
    /\ UNCHANGED <<target_language, clock, raised,
                   pc, relevant_papers, research_topics,
                   translated_papers, optimal_count, sent, transport_outcome,
                   result, translate_calls, service_log, history, svars, ovars>>

SearchExit_NoTotal ==
    /\ pc = "searching"
    /\ ~SearchContinues(ok, ng)
    /\ optimal_count' = ok
    /\ card_content' = GeneratePapersCard(Prefix(translated_papers, ok),
                                          research_topics, 0, clock)
    /\ render_calls' = render_calls + 1
    /\ history' = Append(history, "Delivering")
    /\ pc' = "delivering"
    /\ UNCHANGED <<target_language, clock, probe_cards, raised,
                   relevant_papers, research_topics,
                   translated_papers, ok, ng, probed, measured, sent,
                   transport_outcome, result, translate_calls, service_log,
                   svars, ovars>>

\* _find_optimal_paper_count returns ok; the final card is rendered
SearchExit ==
    /\ pc = "searching"
    /\ ~SearchContinues(ok, ng)
    /\ optimal_count' = ok
    /\ card_content' = GeneratePapersCard(Prefix(translated_papers, ok),
                                          research_topics, Len(translated_papers),
                                          clock)
    /\ render_calls' = render_calls + 1
    /\ history' = Append(history, "Delivering")
    /\ pc' = "delivering"
    /\ UNCHANGED <<target_language, clock, probe_cards, raised,
                   relevant_papers, research_topics,
                   translated_papers, ok, ng, probed, measured, sent,
                   transport_outcome, result, translate_calls, service_log,
                   svars, ovars>>

\* _send_adaptive_card: True after a successful post, False after any exception
SendAdaptiveCard(outcome) == IF outcome = "ok" THEN "True" ELSE "False"

Deliver_Retry ==
    /\ pc = "delivering"
    /\ \E outcome \in TransportOutcomes :
         /\ sent' = IF outcome = "ok"
                    THEN Append(sent, card_content)
                    ELSE sent \o <<card_content, card_content>>
         /\ transport_outcome' = outcome
         /\ result' = SendAdaptiveCard(outcome)
    /\ history' = Append(history, "Done")
    /\ pc' = "done"
    /\ UNCHANGED <<target_language, clock, probe_cards, raised,
                   relevant_papers, research_topics,
                   translated_papers, ok, ng, probed, optimal_count,
                   card_content, measured, translate_calls, service_log,
                   render_calls, svars, ovars>>

Deliver_Resume ==
    /\ pc = "delivering"
    /\ \E outcome \in TransportOutcomes :
         /\ sent' = Append(sent, card_content)
         /\ transport_outcome' = outcome
         /\ result' = SendAdaptiveCard(outcome)
         /\ IF outcome = "ok" \/ Len(sent) > 0
            THEN history' = Append(history, "Done") /\ pc' = "done"
            ELSE history' = Append(history, "Searching") /\ pc' = "searching"
    /\ UNCHANGED <<target_language, clock, probe_cards, raised,
                   relevant_papers, research_topics,
                   translated_papers, ok, ng, probed, optimal_count,
                   card_content, measured, translate_calls, service_log,
                   render_calls, svars, ovars>>

\* return self._send_adaptive_card(card_content)
Deliver ==
    /\ pc = "delivering"
    /\ \E outcome \in TransportOutcomes :
         /\ sent' = Append(sent, card_content)
         /\ transport_outcome' = outcome
         /\ result' = SendAdaptiveCard(outcome)
    /\ history' = Append(history, "Done")
    /\ pc' = "done"
    /\ UNCHANGED <<target_language, clock, probe_cards, raised,
                   relevant_papers, research_topics,
                   translated_papers, ok, ng, probed, optimal_count,
                   card_content, measured, translate_calls, service_log,
                   render_calls, svars, ovars>>

\* The caller has the return value and the locals are gone; the notifier can
\* be called again.
Return ==
    /\ pc = "done"
    /\ pc' = "idle"
    /\ relevant_papers' = <<>>
    /\ research_topics' = <<>>
    /\ FreshLocals
    /\ result' = "None"
    /\ history' = <<>>
    /\ UNCHANGED <<target_language, svars, ovars>>

TeamsNext ==
    \/ Call
    \/ PrepareStep
    \/ SearchEnter
    \/ Probe
    \/ SearchExit
    \/ Deliver
    \/ Return

(***************************************************************************)
(* teams_notifier.py: exceptions inside the try block of                   *)
(* send_paper_notification.  Which inputs make a step raise is left open:  *)
(* any step of the block may raise.                                        *)
(***************************************************************************)
ExceptHandler_Propagate == "Raised"

\* except Exception as e: logger.error(...); return False
ExceptHandler == "False"

\* The step `step` raises; control passes to the except clause.
Raises(step) ==
    /\ raised' = step
    /\ result' = ExceptHandler
    /\ history' = Append(history, "Done")
    /\ pc' = "done"
    /\ UNCHANGED <<target_language, clock, probe_cards, relevant_papers,
                   research_topics, translated_papers, ok, ng, probed,
                   optimal_count, card_content, measured, sent,
                   transport_outcome, translate_calls, service_log,
                   render_calls, svars, ovars>>

\* _prepare_translated_papers raises (the tuple, paper.summary or the
\* injected translator)
PrepareRaises ==
    /\ pc = "translating"
    /\ Len(translated_papers) < Len(relevant_papers)
    /\ Raises("translation")

\* _find_optimal_paper_count raises in a probe (rendering or json.dumps)
SearchRaises ==
    /\ pc = "searching"
    /\ SearchContinues(ok, ng)
    /\ Raises("search")

\* the final _generate_papers_card raises
RenderRaises ==
    /\ pc = "searching"
    /\ ~SearchContinues(ok, ng)
    /\ Raises("rendering")

FaultNext ==
    \/ TeamsNext
    \/ PrepareRaises
    \/ SearchRaises
    \/ RenderRaises

(***************************************************************************)
(* The wall clock advances while a call is in progress.                    *)
(***************************************************************************)
MaxClock == 1

ClockTick ==
    /\ pc \in {"translating", "searching", "delivering"}
    /\ clock < MaxClock
    /\ clock' = clock + 1
    /\ UNCHANGED <<target_language, pc, relevant_papers, research_topics,
                   translated_papers, ok, ng, probed, optimal_count,
                   card_content, measured, sent, transport_outcome, result,
                   translate_calls, service_log, render_calls, history,
                   probe_cards, raised, svars, ovars>>

ClockNext ==
    \/ TeamsNext
    \/ ClockTick

(***************************************************************************)
(* teams_notifier.py: the container of one paper, for papers and           *)
(* relevances of every shape.                                              *)
(***************************************************************************)
MaxAuthors == 4

MaxKeyTopics == 5

Scores == {0, 79, 80, 81, 100}

\* 1, 2, ..., n and n, ..., 2, 1
Orders(n) == { [j \in 1..n |-> j], [j \in 1..n |-> n + 1 - j] }

BlockItems ==
    { [paper |-> [id |-> 1, summary |-> sm, meta |-> PaperMetaBytes,
                  authors |-> au, key_topics |-> kt, relevance_score |-> sc],
       translated_abstract |-> [lang |-> "ja", blank |-> FALSE, bytes |-> tb]] :
      sm \in {x \in Summaries : x.bytes = 13000},
      au \in UNION { Orders(n) : n \in 0..MaxAuthors },
      kt \in UNION { Orders(n) : n \in 0..MaxKeyTopics },
      sc \in Scores,
      tb \in TranslatedBytes }

NoItem == [paper |-> [id |-> 0], translated_abstract |-> <<>>]

NoBlock == [paper |-> 0]

BlockInit ==
    /\ item = NoItem
    /\ block = NoBlock

\* the loop of _generate_papers_card reaches a tuple
ChooseItem ==
    /\ item = NoItem \/ block # NoBlock
    /\ item' \in BlockItems
    /\ block' = NoBlock
    /\ UNCHANGED <<tvars, svars, lvars, cvars, evars, nvars>>

\* the body of the loop builds the container
RenderItem ==
    /\ item # NoItem
    /\ block = NoBlock
    /\ block' = PaperBlock(item.paper, item.translated_abstract)
    /\ UNCHANGED <<item, tvars, svars, lvars, cvars, evars, nvars>>

BlockNext ==
    \/ ChooseItem
    \/ RenderItem

(***************************************************************************)
(* llm_client.py.  Scores are hundredths.  What Bedrock answers for a      *)
(* paper is a record: the call raises, or the text is a JSON object with a *)
(* usable score (with or without "is_highly_relevant"), or JSON that is    *)
(* not an object, or text that json.loads or float() rejects and that may  *)
(* contain the words the fallback looks for.                               *)
(***************************************************************************)
MaxLLMPapers == 3

MaxReturned == 2

Thresholds == {50, 70, 90}

JsonScores == {50, 70, 90}

ScorerResponses ==
    { [kind |-> "prompt_raises", score |-> 0, flag |-> "absent", words |-> {}],
      [kind |-> "bedrock_raises", score |-> 0, flag |-> "absent", words |-> {}],
      [kind |-> "not_an_object", score |-> 0, flag |-> "absent", words |-> {}] }
    \cup { [kind |-> "object", score |-> sc, flag |-> fl, words |-> {}] :
             sc \in JsonScores, fl \in {"absent", "true", "false"} }
    \cup { [kind |-> "unparsable", score |-> 0, flag |-> "absent", words |-> w] :
             w \in { {}, {"moderate"}, {"relevant"}, {"high", "moderate"} } }

\* PaperRelevance(relevance_score=0.1, relevance_reason="Error during
\* evaluation", key_topics=[], is_relevant=False)
ErrorDefault ==
    [relevance_score |-> 10, relevance_reason |-> "Error during evaluation",
     is_relevant |-> FALSE]

\* _parse_evaluation_result: except (JSONDecodeError, KeyError, ValueError)
ParseFallback(response, thr) ==
    LET score == IF response.words \cap {"high", "relevant"} # {} THEN 70
                 ELSE IF "moderate" \in response.words THEN 50
                 ELSE 10
    IN  [relevance_score |-> score,
         relevance_reason |-> "Parsing error - fallback evaluation",
         is_relevant |-> score >= thr]

\* _parse_evaluation_result raises an exception its except clause does not
\* catch: data.get on a JSON value that is not an object
ParseRaises(response) == response.kind = "not_an_object"

\* _parse_evaluation_result, when it returns
ParseEvaluationResult(response, thr) ==
    IF response.kind = "object"
    THEN [relevance_score |-> response.score,
          relevance_reason |-> "given",
          is_relevant |-> IF response.flag = "absent"
                          THEN response.score >= thr
                          ELSE response.flag = "true"]
    ELSE ParseFallback(response, thr)

\* evaluate_paper_relevance after the prompt is built
EvaluatePaperRelevance(response, thr) ==
    IF response.kind = "bedrock_raises" \/ ParseRaises(response)
    THEN ErrorDefault
    ELSE ParseEvaluationResult(response, thr)

\* list.sort(key=relevance_score, reverse=True): stable, highest first
RECURSIVE InsertByScore(_, _)
InsertByScore(sorted, e) ==
    IF sorted = <<>>
    THEN <<e>>
    ELSE IF Head(sorted).relevance.relevance_score
              >= e.relevance.relevance_score
         THEN <<Head(sorted)>> \o InsertByScore(Tail(sorted), e)
         ELSE <<e>> \o sorted

SortByScore_Keep(rs) == rs

RECURSIVE SortByScore(_)
SortByScore(rs) ==
    IF rs = <<>>
    THEN <<>>
    ELSE InsertByScore(SortByScore(SubSeq(rs, 1, Len(rs) - 1)), rs[Len(rs)])

IsRelevant(e) == e.relevance.is_relevant

\* filter_relevant_papers after evaluate_multiple_papers
FilterRelevantPapers(all_evaluations, maxp) ==
    LET relevant == SelectSeq(all_evaluations, IsRelevant)
    IN  Prefix(relevant, Min(maxp, Len(relevant)))

LLMInit ==
    /\ llm_pc = "idle"
    /\ llm_papers = 0
    /\ threshold = 70
    /\ max_papers = 0
    /\ evaluated = 0
    /\ results = <<>>
    /\ filtered = <<>>

\* filter_relevant_papers is called
LLMCall ==
    /\ llm_pc = "idle"
    /\ llm_papers' \in 0..MaxLLMPapers
    /\ threshold' \in Thresholds
    /\ max_papers' \in 0..MaxReturned
    /\ evaluated' = 0
    /\ results' = <<>>
    /\ filtered' = <<>>
    /\ llm_pc' = "evaluating"
    /\ UNCHANGED <<tvars, svars, bvars, cvars, evars, nvars>>

\* evaluate_multiple_papers: one iteration of "for paper in papers"
EvaluateStep ==
    /\ llm_pc = "evaluating"
    /\ evaluated < llm_papers
    /\ \E response \in ScorerResponses :
         results' =
           IF response.kind = "prompt_raises"
           THEN results
           ELSE Append(results,
                       [paper |-> evaluated + 1,
                        relevance |-> EvaluatePaperRelevance(response,
                                                             threshold)])
    /\ evaluated' = evaluated + 1
    /\ UNCHANGED <<llm_pc, llm_papers, threshold, max_papers, filtered,
                   tvars, svars, bvars, cvars, evars, nvars>>

\* evaluate_multiple_papers sorts and returns; filter_relevant_papers
\* filters and truncates
FilterStep ==
    /\ llm_pc = "evaluating"
    /\ evaluated = llm_papers
    /\ results' = SortByScore(results)
    /\ filtered' = FilterRelevantPapers(SortByScore(results), max_papers)
    /\ llm_pc' = "done"
    /\ UNCHANGED <<llm_papers, threshold, max_papers, evaluated,
                   tvars, svars, bvars, cvars, evars, nvars>>

LLMReturn ==
    /\ llm_pc = "done"
    /\ llm_pc' = "idle"
    /\ llm_papers' = 0
    /\ threshold' = 70
    /\ max_papers' = 0
    /\ evaluated' = 0
    /\ results' = <<>>
    /\ filtered' = <<>>
    /\ UNCHANGED <<tvars, svars, bvars, cvars, evars, nvars>>

LLMNext ==
    \/ LLMCall
    \/ EvaluateStep
    \/ FilterStep
    \/ LLMReturn

(***************************************************************************)
(* s3_storage.py: seen_papers.json.  The object is absent or maps paper    *)
(* ids to the day they were last written.                                  *)
(***************************************************************************)
MaxIds == 2

MaxDay == 40

MaxRuns == 3

PaperIds == 1..MaxIds

\* Days by which the clock advances between two steps of the scheduler.
TickDays == {10, 20}

\* timedelta(days=30)
RETENTION_DAYS == 30

GetOutcomes == {"ok", "error"}

PutOutcomes == {"ok", "error"}

NoObject == [exists |-> FALSE, data |-> {}]

Ids(obj) == { e[1] : e \in obj.data }

\* save_seen_papers: every id is written with the current time
SaveSeenPapers(obj, paper_ids, day, put) ==
    IF put = "ok"
    THEN [object |-> [exists |-> TRUE,
                      data |-> { <<id, day>> : id \in paper_ids }],
          ret |-> TRUE, faults |-> {}]
    ELSE [object |-> obj, ret |-> FALSE, faults |-> {"save"}]

\* load_seen_papers: the ids returned, the object afterwards
LoadSeenPapers(obj, day, get, put) ==
    IF get = "error"
    THEN [ids |-> {}, object |-> obj, faults |-> {"load"}]
    ELSE IF ~obj.exists
    THEN [ids |-> {}, object |-> obj, faults |-> {}]
    ELSE LET current_papers == { e \in obj.data : e[2] > day - RETENTION_DAYS }
             current_ids    == { e[1] : e \in current_papers }
         IN  IF Cardinality(current_papers) # Cardinality(obj.data)
             THEN LET saved == SaveSeenPapers(obj, current_ids, day, put)
                  IN  [ids |-> current_ids, object |-> saved.object,
                       faults |-> saved.faults]
             ELSE [ids |-> current_ids, object |-> obj, faults |-> {}]

\* update_seen_papers
UpdateSeenPapers(obj, new_paper_ids, day, get, put1, put2) ==
    LET loaded == LoadSeenPapers(obj, day, get, put1)
        updated_papers == loaded.ids \cup new_paper_ids
        saved == SaveSeenPapers(loaded.object, updated_papers, day, put2)
    IN  [object |-> saved.object, ret |-> saved.ret,
         faults |-> loaded.faults \cup saved.faults]

\* filter_new_papers
FilterNewPapers(obj, found, day, get, put) ==
    LET loaded == LoadSeenPapers(obj, day, get, put)
    IN  [new_papers |-> found \ loaded.ids, object |-> loaded.object,
         faults |-> loaded.faults]

(***************************************************************************)
(* main.py: the storage steps of lambda_handler, run after run.            *)
(***************************************************************************)
StoreInit ==
    /\ seen_object = NoObject
    /\ now = 0
    /\ run_pc = "idle"
    /\ papers = {}
    /\ new_papers = {}
    /\ passed_new = {}
    /\ repeated = {}
    /\ storage_faults = {}
    /\ runs = 0
    /\ last_run = 0
    /\ spaced = TRUE

\* The scheduler waits.
Tick ==
    /\ run_pc = "idle"
    /\ \E d \in TickDays :
         /\ now + d <= MaxDay
         /\ now' = now + d
    /\ UNCHANGED <<seen_object, run_pc, papers, new_papers, passed_new,
                   repeated, storage_faults, runs, last_run, spaced, tvars, ovars>>

\* lambda_handler starts: search_multiple_topics; "if not papers: return"
RunSearch ==
    /\ run_pc = "idle"
    /\ runs < MaxRuns
    /\ \E found \in SUBSET PaperIds :
         /\ papers' = found
         /\ run_pc' = IF found = {} THEN "done" ELSE "filter"
    /\ new_papers' = {}
    /\ runs' = runs + 1
    /\ last_run' = now
    /\ spaced' = (spaced /\ (runs = 0 \/ now - last_run < RETENTION_DAYS))
    /\ UNCHANGED <<seen_object, now, passed_new, repeated, storage_faults,
                   tvars, ovars>>

\* new_papers = s3_storage.filter_new_papers(papers); "if not new_papers: return"
RunFilter ==
    /\ run_pc = "filter"
    /\ \E get \in GetOutcomes, put \in PutOutcomes :
         LET f == FilterNewPapers(seen_object, papers, now, get, put)
         IN  /\ new_papers' = f.new_papers
             /\ seen_object' = f.object
             /\ storage_faults' = storage_faults \cup f.faults
             /\ repeated' = repeated \cup (f.new_papers \cap passed_new)
             /\ run_pc' = IF f.new_papers = {} THEN "done" ELSE "update"
    /\ UNCHANGED <<now, papers, passed_new, runs, last_run, spaced, tvars, ovars>>

\* s3_storage.update_seen_papers(new_paper_ids); its return value is dropped
RunUpdate ==
    /\ run_pc = "update"
    /\ \E get \in GetOutcomes, put1 \in PutOutcomes, put2 \in PutOutcomes :
         LET u == UpdateSeenPapers(seen_object, new_papers, now, get, put1, put2)
         IN  /\ seen_object' = u.object
             /\ storage_faults' = storage_faults \cup u.faults
    /\ run_pc' = "done"
    /\ UNCHANGED <<now, papers, new_papers, passed_new, repeated, runs,
                   last_run, spaced, tvars, ovars>>

\* lambda_handler returns its response.
RunReturn ==
    /\ run_pc = "done"
    /\ passed_new' = passed_new \cup new_papers
    /\ run_pc' = "idle"
    /\ UNCHANGED <<seen_object, now, papers, new_papers, repeated,
                   storage_faults, runs, last_run, spaced, tvars, ovars>>

StoreNext ==
    \/ Tick
    \/ RunSearch
    \/ RunFilter
    \/ RunUpdate
    \/ RunReturn

(***************************************************************************)
(* s3_storage.py: update_seen_papers called by two pipeline runs on the    *)
(* same bucket.  A call is a load (GetObject, and a PutObject when entries *)
(* have expired) followed by a save (PutObject); the steps of the two runs *)
(* interleave.                                                             *)
(***************************************************************************)
PipelineRuns == {1, 2}

MaxSharedIds == 3

SharedIds == 1..MaxSharedIds

ConcInit ==
    /\ shared_object = NoObject
    /\ upd_pc = [r \in PipelineRuns |-> "idle"]
    /\ upd_new = [r \in PipelineRuns |-> {}]
    /\ upd_existing = [r \in PipelineRuns |-> {}]
    /\ upd_ret = [r \in PipelineRuns |-> FALSE]
    /\ upd_faults = {}

\* update_seen_papers(new_paper_ids) is called in run r
UpdateCall(r) ==
    /\ upd_pc[r] = "idle"
    /\ \E new_paper_ids \in SUBSET SharedIds \ {{}} :
         upd_new' = [upd_new EXCEPT ![r] = new_paper_ids]
    /\ upd_pc' = [upd_pc EXCEPT ![r] = "loading"]
    /\ UNCHANGED <<shared_object, upd_existing, upd_ret, upd_faults,
                   tvars, svars, bvars, lvars, evars, nvars>>

\* existing_papers = self.load_seen_papers()
UpdateLoad(r) ==
    /\ upd_pc[r] = "loading"
    /\ \E get \in GetOutcomes, put \in PutOutcomes :
         LET loaded == LoadSeenPapers(shared_object, now, get, put)
         IN  /\ upd_existing' = [upd_existing EXCEPT ![r] = loaded.ids]
             /\ shared_object' = loaded.object
             /\ upd_faults' = upd_faults \cup loaded.faults
    /\ upd_pc' = [upd_pc EXCEPT ![r] = "saving"]
    /\ UNCHANGED <<upd_new, upd_ret, tvars, svars, bvars, lvars, evars, nvars>>

\* return self.save_seen_papers(existing_papers.union(set(new_paper_ids)))
UpdateSave(r) ==
    /\ upd_pc[r] = "saving"
    /\ \E put \in PutOutcomes :
         LET saved == SaveSeenPapers(shared_object,
                                     upd_existing[r] \cup upd_new[r], now, put)
         IN  /\ shared_object' = saved.object
             /\ upd_ret' = [upd_ret EXCEPT ![r] = saved.ret]
             /\ upd_faults' = upd_faults \cup saved.faults
    /\ upd_pc' = [upd_pc EXCEPT ![r] = "done"]
    /\ UNCHANGED <<upd_new, upd_existing, tvars, svars, bvars, lvars, evars, nvars>>

ConcNext ==
    \E r \in PipelineRuns :
        \/ UpdateCall(r)
        \/ UpdateLoad(r)
        \/ UpdateSave(r)

(***************************************************************************)
(* email_notifier.py: send_paper_notification builds an HTML body and a    *)
(* plain-text body, then hands both to SES.                                *)
(***************************************************************************)
MaxEmailPapers == 2

EmailPaperLists ==
    UNION { [1..n -> Summaries] : n \in 0..MaxEmailPapers }

SesOutcomes == {"ok", "client_error", "other_error"}

\* EmailNotifier._translate_text: the text returned, the service calls made
EmailTranslateText(text, target, response) ==
    IF text.blank
    THEN [text |-> text, service |-> <<>>]
    ELSE IF target = "en"
    THEN [text |-> text, service |-> <<>>]
    ELSE IF response.raised
    THEN [text |-> text, service |-> <<"error">>]
    ELSE [text |-> [lang |-> target, blank |-> FALSE, bytes |-> response.bytes],
          service |-> <<"ok">>]

EmailInit ==
    /\ em_language = "ja"
    /\ em_pc = "idle"
    /\ em_papers = <<>>
    /\ em_html = <<>>
    /\ em_text = <<>>
    /\ em_service_calls = <<>>
    /\ em_result = "None"

\* a notifier with some target_language is called: "if not
\* relevant_papers: return True"
EmailCall ==
    /\ em_pc = "idle"
    /\ em_language' \in Languages
    /\ em_papers' \in EmailPaperLists
    /\ em_html' = <<>>
    /\ em_text' = <<>>
    /\ em_service_calls' = [i \in 1..Len(em_papers') |-> 0]
    /\ IF em_papers' = <<>>
       THEN em_result' = "True" /\ em_pc' = "done"
       ELSE em_result' = "None" /\ em_pc' = "html"
    /\ UNCHANGED <<tvars, svars, bvars, lvars, cvars, nvars>>

\* _generate_html_body: one iteration of its loop over the papers
HtmlStep ==
    /\ em_pc = "html"
    /\ \E response \in ServiceResponses :
         LET i == Len(em_html) + 1
             t == EmailTranslateText(em_papers[i], em_language, response)
         IN  /\ em_html' = Append(em_html, t.text)
             /\ em_service_calls' =
                  [em_service_calls EXCEPT ![i] = @ + Len(t.service)]
    /\ em_pc' = IF Len(em_html) + 1 = Len(em_papers) THEN "text" ELSE "html"
    /\ UNCHANGED <<em_language, em_papers, em_text, em_result,
                   tvars, svars, bvars, lvars, cvars, nvars>>

\* _generate_text_body: one iteration of its loop over the papers
TextStep ==
    /\ em_pc = "text"
    /\ \E response \in ServiceResponses :
         LET i == Len(em_text) + 1
             t == EmailTranslateText(em_papers[i], em_language, response)
         IN  /\ em_text' = Append(em_text, t.text)
             /\ em_service_calls' =
                  [em_service_calls EXCEPT ![i] = @ + Len(t.service)]
    /\ em_pc' = IF Len(em_text) + 1 = Len(em_papers) THEN "sending" ELSE "text"
    /\ UNCHANGED <<em_language, em_papers, em_html, em_result,
                   tvars, svars, bvars, lvars, cvars, nvars>>

\* ses_client.send_email: True, or False after any exception
EmailSend ==
    /\ em_pc = "sending"
    /\ \E outcome \in SesOutcomes :
         em_result' = IF outcome = "ok" THEN "True" ELSE "False"
    /\ em_pc' = "done"
    /\ UNCHANGED <<em_language, em_papers, em_html, em_text,
                   em_service_calls, tvars, svars, bvars, lvars, cvars, nvars>>

EmailReturn ==
    /\ em_pc = "done"
    /\ em_language' = "ja"
    /\ em_pc' = "idle"
    /\ em_papers' = <<>>
    /\ em_html' = <<>>
    /\ em_text' = <<>>
    /\ em_service_calls' = <<>>
    /\ em_result' = "None"
    /\ UNCHANGED <<tvars, svars, bvars, lvars, cvars, nvars>>

EmailNext ==
    \/ EmailCall
    \/ HtmlStep
    \/ TextStep
    \/ EmailSend
    \/ EmailReturn

(***************************************************************************)
(* s3_storage.py: load_seen_papers and update_seen_papers called over      *)
(* time, with the day every id was last passed to a successful update.     *)
(***************************************************************************)
NoCall == [kind |-> "none", before |-> NoObject, new_paper_ids |-> {},
           ret |-> FALSE, ids |-> {}, faults |-> {}]

\* The ids of the entries load_seen_papers keeps on day `day`
Unexpired(obj, day) ==
    { e[1] : e \in { x \in obj.data : x[2] > day - RETENTION_DAYS } }

StInit ==
    /\ st_object = NoObject
    /\ st_now = 0
    /\ st_recorded = [id \in PaperIds |-> -1]
    /\ st_last = NoCall

\* Time passes between calls.
StTick ==
    /\ \E d \in TickDays :
         /\ st_now + d <= MaxDay
         /\ st_now' = st_now + d
    /\ st_last' = NoCall
    /\ UNCHANGED <<st_object, st_recorded, notD>>

\* load_seen_papers()
StLoad ==
    /\ \E get \in GetOutcomes, put \in PutOutcomes :
         LET loaded == LoadSeenPapers(st_object, st_now, get, put)
         IN  /\ st_object' = loaded.object
             /\ st_last' = [kind |-> "load", before |-> st_object,
                            new_paper_ids |-> {}, ret |-> get = "ok",
                            ids |-> loaded.ids, faults |-> loaded.faults]
    /\ UNCHANGED <<st_now, st_recorded, notD>>

\* update_seen_papers(new_paper_ids)
StUpdate ==
    /\ \E new_paper_ids \in SUBSET PaperIds \ {{}} :
       \E get \in GetOutcomes, put1 \in PutOutcomes, put2 \in PutOutcomes :
         LET u == UpdateSeenPapers(st_object, new_paper_ids, st_now, get,
                                   put1, put2)
         IN  /\ st_object' = u.object
             /\ st_recorded' =
                  IF u.ret
                  THEN [id \in PaperIds |->
                          IF id \in new_paper_ids THEN st_now
                          ELSE st_recorded[id]]
                  ELSE st_recorded
             /\ st_last' = [kind |-> "update", before |-> st_object,
                            new_paper_ids |-> new_paper_ids, ret |-> u.ret,
                            ids |-> {}, faults |-> u.faults]
    /\ UNCHANGED <<st_now, notD>>

StNext ==
    \/ StTick
    \/ StLoad
    \/ StUpdate

(***************************************************************************)
(* arxiv_client.py: search_multiple_topics.  A paper is its id and its     *)
(* publication date (the ISO string, as a day number); what search_papers  *)
(* does for a topic is to raise or to return a list of papers.             *)
(***************************************************************************)
MaxTopics == 3

ArxivA == [id |-> 1, published |-> 3]

ArxivB == [id |-> 2, published |-> 5]

ArxivC == [id |-> 3, published |-> 5]

ArxivD == [id |-> 4, published |-> 1]

TopicResults ==
    { [raised |-> TRUE, papers |-> <<>>],
      [raised |-> FALSE, papers |-> <<>>],
      [raised |-> FALSE, papers |-> <<ArxivA, ArxivB>>],
      [raised |-> FALSE, papers |-> <<ArxivB, ArxivC>>],
      [raised |-> FALSE, papers |-> <<ArxivD, ArxivA, ArxivA>>],
      [raised |-> FALSE, papers |-> <<ArxivC, ArxivD>>] }

\* The copy of `paper` that topic number `topic` returned.
Found(paper, topic) ==
    [id |-> paper.id, published |-> paper.published, topic |-> topic]

Dedup_KeepAll(acc, found, topic) ==
    [all_papers |-> acc.all_papers
                      \o [j \in 1..Len(found) |-> Found(found[j], topic)],
     seen_ids |-> acc.seen_ids \cup { found[j].id : j \in 1..Len(found) }]

\* for paper in papers: if paper.id not in seen_ids: append, add
RECURSIVE Dedup(_, _, _)
Dedup(acc, found, topic) ==
    IF found = <<>>
    THEN acc
    ELSE LET paper == Head(found)
         IN  IF paper.id \notin acc.seen_ids
             THEN Dedup([all_papers |-> Append(acc.all_papers,
                                              Found(paper, topic)),
                         seen_ids |-> acc.seen_ids \cup {paper.id}],
                        Tail(found), topic)
             ELSE Dedup(acc, Tail(found), topic)

\* all_papers.sort(key=lambda p: p.published, reverse=True): stable
RECURSIVE InsertByPublished(_, _)
InsertByPublished(sorted, p) ==
    IF sorted = <<>>
    THEN <<p>>
    ELSE IF Head(sorted).published >= p.published
         THEN <<Head(sorted)>> \o InsertByPublished(Tail(sorted), p)
         ELSE <<p>> \o sorted

RECURSIVE SortByPublished(_)
SortByPublished(ps) ==
    IF ps = <<>>
    THEN <<>>
    ELSE InsertByPublished(SortByPublished(SubSeq(ps, 1, Len(ps) - 1)),
                           ps[Len(ps)])

SearchInit ==
    /\ sr_pc = "idle"
    /\ sr_topics = 0
    /\ sr_log = <<>>
    /\ all_papers = <<>>
    /\ seen_ids = {}
    /\ sr_result = <<>>

\* search_multiple_topics(topics) is called
SearchCall ==
    /\ sr_pc = "idle"
    /\ sr_topics' \in 0..MaxTopics
    /\ sr_log' = <<>>
    /\ all_papers' = <<>>
    /\ seen_ids' = {}
    /\ sr_result' = <<>>
    /\ sr_pc' = "searching"
    /\ UNCHANGED notA

\* one iteration of "for topic in topics": search_papers, then the
\* deduplication, or the except clause and "continue"
SearchTopic ==
    /\ sr_pc = "searching"
    /\ Len(sr_log) < sr_topics
    /\ \E outcome \in TopicResults :
         /\ sr_log' = Append(sr_log, outcome)
         /\ IF outcome.raised
            THEN UNCHANGED <<all_papers, seen_ids>>
            ELSE LET acc == Dedup([all_papers |-> all_papers,
                                   seen_ids |-> seen_ids],
                                  outcome.papers, Len(sr_log) + 1)
                 IN  /\ all_papers' = acc.all_papers
                     /\ seen_ids' = acc.seen_ids
    /\ UNCHANGED <<sr_pc, sr_topics, sr_result, notA>>

\* the loop is over: sort and return
SearchSort ==
    /\ sr_pc = "searching"
    /\ Len(sr_log) = sr_topics
    /\ all_papers' = SortByPublished(all_papers)
    /\ sr_result' = SortByPublished(all_papers)
    /\ sr_pc' = "done"
    /\ UNCHANGED <<sr_topics, sr_log, seen_ids, notA>>

SearchReturn ==
    /\ sr_pc = "done"
    /\ sr_pc' = "idle"
    /\ sr_topics' = 0
    /\ sr_log' = <<>>
    /\ all_papers' = <<>>
    /\ seen_ids' = {}
    /\ sr_result' = <<>>
    /\ UNCHANGED notA

SearchNext ==
    \/ SearchCall
    \/ SearchTopic
    \/ SearchSort
    \/ SearchReturn

(***************************************************************************)
(* main.py: lambda_handler from the validated event to the response, run   *)
(* after run on one bucket.  The collaborators are called for their        *)
(* results: a set of ids, a boolean, or an exception.                      *)
(***************************************************************************)
MaxHandlerIds == 2

MaxHandlerRuns == 2

MaxHandlerDay == 40

HandlerIds == 1..MaxHandlerIds

\* Days between two runs of the schedule.
HandlerTickDays == 20

\* os.environ: EMAIL_RECIPIENT, S3_PAPERS_BUCKET, the Teams webhook URL
Environments ==
    [email_recipient : BOOLEAN, s3_bucket : BOOLEAN,
     teams_webhook_url : BOOLEAN]

\* get_environment_config raises ValueError when a required variable is unset
ConfigRaises(env) == ~env.email_recipient \/ ~env.s3_bucket

\* config["teams_webhook_url"]
TeamsWebhookUrl(env) == env.teams_webhook_url

\* get_environment_config, where it returns
GetEnvironmentConfig(env) ==
    [email_recipient |-> env.email_recipient,
     teams_webhook_url |-> TeamsWebhookUrl(env)]

NoResponse ==
    [statusCode |-> 0, papers_processed |-> -1, notification_sent |-> "absent",
     error |-> FALSE]

\* _create_response(200, ..., {"papers_processed": 0})
EarlyResponse ==
    [statusCode |-> 200, papers_processed |-> 0, notification_sent |-> "absent",
     error |-> FALSE]

\* _create_response(200, "Processing completed successfully", {...})
CompletedResponse(new_papers_, relevant_papers_) ==
    [statusCode |-> 200, papers_processed |-> Cardinality(new_papers_),
     notification_sent |->
         IF Cardinality(relevant_papers_) > 0 THEN "true" ELSE "false",
     error |-> FALSE]

\* _create_response(500, error_msg, {"error": True})
ErrorResponse ==
    [statusCode |-> 500, papers_processed |-> -1, notification_sent |-> "absent",
     error |-> TRUE]

\* "if not papers: return"
AfterSearch(found) == IF found = {} THEN "return_early" ELSE "filter"

\* A handler without the second early return.
AfterFilter_Always(new_papers_) == "score"

\* "if not new_papers: return"
AfterFilter(new_papers_) == IF new_papers_ = {} THEN "return_early" ELSE "score"

\* A check that raises as soon as one notification failed.
AllFailed_Any(notification_results) ==
    \E i \in 1..Len(notification_results) : ~notification_results[i].success

\* "if notification_results and not any(success for _, success in ...)"
AllFailed(notification_results) ==
    /\ notification_results # <<>>
    /\ \A i \in 1..Len(notification_results) : ~notification_results[i].success

\* A handler without the try around each channel: the first failure ends
\* the error notifications.
ChannelExcept_Abort == "abort"

\* "except Exception as email_error" / "as teams_error": the next channel
\* is still tried
ChannelExcept == "continue"

NoPrev == [ids |-> {}, day |-> 0, unsent |-> FALSE]

HandlerInit ==
    /\ h_pc = "idle"
    /\ h_env = [email_recipient |-> TRUE, s3_bucket |-> TRUE,
                teams_webhook_url |-> FALSE]
    /\ h_object = NoObject
    /\ h_now = 0
    /\ h_papers = {}
    /\ h_new = {}
    /\ h_relevant = {}
    /\ h_calls = <<>>
    /\ h_results = <<>>
    /\ h_raised_at = "none"
    /\ h_build = "none"
    /\ h_response = NoResponse
    /\ h_start_object = NoObject
    /\ h_prev = NoPrev
    /\ h_runs = 0

\* The schedule waits.
HTick ==
    /\ h_pc = "idle"
    /\ h_now + HandlerTickDays <= MaxHandlerDay
    /\ h_now' = h_now + HandlerTickDays
    /\ UNCHANGED <<h_pc, h_env, h_object, h_papers, h_new, h_relevant, h_calls,
                   h_results, h_raised_at, h_build, h_response,
                   h_start_object, h_prev, h_runs, notH>>

\* lambda_handler is entered with a valid event.
HStart ==
    /\ h_pc = "idle"
    /\ h_runs < MaxHandlerRuns
    /\ \E env \in Environments : h_env' = env
    /\ h_pc' = "config"
    /\ h_papers' = {}
    /\ h_new' = {}
    /\ h_relevant' = {}
    /\ h_calls' = <<>>
    /\ h_results' = <<>>
    /\ h_raised_at' = "none"
    /\ h_build' = "none"
    /\ h_response' = NoResponse
    /\ h_start_object' = h_object
    /\ h_runs' = h_runs + 1
    /\ UNCHANGED <<h_object, h_now, h_prev, notH>>

\* config = get_environment_config(); the clients, the translator and the
\* notifiers are built
HConfig ==
    /\ h_pc = "config"
    /\ \E init \in {"ok", "raises"} :
         IF ConfigRaises(h_env) \/ init = "raises"
         THEN h_pc' = "except" /\ h_raised_at' = "config"
         ELSE h_pc' = "search" /\ UNCHANGED h_raised_at
    /\ UNCHANGED <<h_env, h_object, h_now, h_papers, h_new, h_relevant,
                   h_calls, h_results, h_build, h_response, h_start_object,
                   h_prev, h_runs, notH>>

\* papers = arxiv_client.search_multiple_topics(...); "if not papers: return"
HSearch ==
    /\ h_pc = "search"
    /\ h_calls' = Append(h_calls, "search")
    /\ \/ /\ h_pc' = "except"
          /\ h_raised_at' = "search"
          /\ UNCHANGED h_papers
       \/ \E found \in SUBSET HandlerIds :
            /\ h_papers' = found
            /\ h_pc' = AfterSearch(found)
            /\ UNCHANGED h_raised_at
    /\ UNCHANGED <<h_env, h_object, h_now, h_new, h_relevant, h_results,
                   h_build, h_response, h_start_object, h_prev, h_runs, notH>>

\* new_papers = s3_storage.filter_new_papers(papers); "if not new_papers: return"
HFilter ==
    /\ h_pc = "filter"
    /\ h_calls' = Append(h_calls, "filter")
    /\ \E get \in GetOutcomes, put \in PutOutcomes :
         LET f == FilterNewPapers(h_object, h_papers, h_now, get, put)
         IN  /\ h_new' = f.new_papers
             /\ h_object' = f.object
             /\ h_pc' = AfterFilter(f.new_papers)
    /\ UNCHANGED <<h_env, h_now, h_papers, h_relevant, h_results, h_raised_at,
                   h_build, h_response, h_start_object, h_prev, h_runs, notH>>

\* relevant_papers = llm_client.filter_relevant_papers(new_papers, ...)
HScore ==
    /\ h_pc = "score"
    /\ h_calls' = Append(h_calls, "score")
    /\ \/ /\ h_pc' = "except"
          /\ h_raised_at' = "score"
          /\ UNCHANGED h_relevant
       \/ \E relevant \in SUBSET h_new :
            /\ h_relevant' = relevant
            /\ h_pc' = "update"
            /\ UNCHANGED h_raised_at
    /\ UNCHANGED <<h_env, h_object, h_now, h_papers, h_new, h_results,
                   h_build, h_response, h_start_object, h_prev, h_runs, notH>>

\* s3_storage.update_seen_papers(new_paper_ids); its return value is
\* dropped; "if relevant_papers:"
HUpdate ==
    /\ h_pc = "update"
    /\ h_calls' = Append(h_calls, "update")
    /\ \E get \in GetOutcomes, put1 \in PutOutcomes, put2 \in PutOutcomes :
         h_object' =
             UpdateSeenPapers(h_object, h_new, h_now, get, put1, put2).object
    /\ h_pc' = IF h_relevant # {} THEN "email" ELSE "return"
    /\ UNCHANGED <<h_env, h_now, h_papers, h_new, h_relevant, h_results,
                   h_raised_at, h_build, h_response, h_start_object, h_prev,
                   h_runs, notH>>

\* "if email_notifier:" email_notifier.send_paper_notification(...)
HEmail ==
    /\ h_pc = "email"
    /\ IF GetEnvironmentConfig(h_env).email_recipient
       THEN \E email_success \in BOOLEAN :
              /\ h_calls' = Append(h_calls, "email")
              /\ h_results' = Append(h_results,
                     [channel |-> "Email", success |-> email_success])
       ELSE UNCHANGED <<h_calls, h_results>>
    /\ h_pc' = "teams"
    /\ UNCHANGED <<h_env, h_object, h_now, h_papers, h_new, h_relevant,
                   h_raised_at, h_build, h_response, h_start_object, h_prev,
                   h_runs, notH>>

\* "if teams_notifier:" teams_notifier.send_paper_notification(...)
HTeams ==
    /\ h_pc = "teams"
    /\ IF GetEnvironmentConfig(h_env).teams_webhook_url
       THEN \E teams_success \in BOOLEAN :
              /\ h_calls' = Append(h_calls, "teams")
              /\ h_results' = Append(h_results,
                     [channel |-> "Teams", success |-> teams_success])
       ELSE UNCHANGED <<h_calls, h_results>>
    /\ h_pc' = "check"
    /\ UNCHANGED <<h_env, h_object, h_now, h_papers, h_new, h_relevant,
                   h_raised_at, h_build, h_response, h_start_object, h_prev,
                   h_runs, notH>>

\* "Check if all notifications failed": raise RuntimeError
HCheck ==
    /\ h_pc = "check"
    /\ IF AllFailed(h_results)
       THEN h_pc' = "except" /\ h_raised_at' = "notify"
       ELSE h_pc' = "return" /\ UNCHANGED h_raised_at
    /\ UNCHANGED <<h_env, h_object, h_now, h_papers, h_new, h_relevant,
                   h_calls, h_results, h_build, h_response, h_start_object,
                   h_prev, h_runs, notH>>

\* return _create_response(200, "No papers found" / "No new papers", ...)
HReturnEarly ==
    /\ h_pc = "return_early"
    /\ h_response' = EarlyResponse
    /\ h_pc' = "done"
    /\ UNCHANGED <<h_env, h_object, h_now, h_papers, h_new, h_relevant,
                   h_calls, h_results, h_raised_at, h_build, h_start_object,
                   h_prev, h_runs, notH>>

\* return _create_response(200, "Processing completed successfully", ...)
HReturn ==
    /\ h_pc = "return"
    /\ h_response' = CompletedResponse(h_new, h_relevant)
    /\ h_pc' = "done"
    /\ UNCHANGED <<h_env, h_object, h_now, h_papers, h_new, h_relevant,
                   h_calls, h_results, h_raised_at, h_build, h_start_object,
                   h_prev, h_runs, notH>>

\* except Exception: config = get_environment_config(); translator = ...
HErrBuild ==
    /\ h_pc = "except"
    /\ \E translator \in {"ok", "raises"} :
         IF ConfigRaises(h_env) \/ translator = "raises"
         THEN h_build' = "raised" /\ h_pc' = "respond"
         ELSE h_build' = "built" /\ h_pc' = "err_email"
    /\ UNCHANGED <<h_env, h_object, h_now, h_papers, h_new, h_relevant,
                   h_calls, h_results, h_raised_at, h_response,
                   h_start_object, h_prev, h_runs, notH>>

\* "if config["email_recipient"]:" EmailNotifier(...).send_error_notification
HErrEmail ==
    /\ h_pc = "err_email"
    /\ IF GetEnvironmentConfig(h_env).email_recipient
       THEN /\ h_calls' = Append(h_calls, "email_error")
            /\ \E outcome \in {"returns", "raises"} :
                 h_pc' = IF outcome = "raises" /\ ChannelExcept # "continue"
                         THEN "respond" ELSE "err_teams"
       ELSE h_pc' = "err_teams" /\ UNCHANGED h_calls
    /\ UNCHANGED <<h_env, h_object, h_now, h_papers, h_new, h_relevant,
                   h_results, h_raised_at, h_build, h_response,
                   h_start_object, h_prev, h_runs, notH>>

\* "if config["teams_webhook_url"]:" TeamsNotifier(...).send_error_notification
HErrTeams ==
    /\ h_pc = "err_teams"
    /\ IF GetEnvironmentConfig(h_env).teams_webhook_url
       THEN /\ h_calls' = Append(h_calls, "teams_error")
            /\ \E outcome \in {"returns", "raises"} : h_pc' = "respond"
       ELSE h_pc' = "respond" /\ UNCHANGED h_calls
    /\ UNCHANGED <<h_env, h_object, h_now, h_papers, h_new, h_relevant,
                   h_results, h_raised_at, h_build, h_response,
                   h_start_object, h_prev, h_runs, notH>>

\* return _create_response(500, error_msg, {"error": True})
HRespond ==
    /\ h_pc = "respond"
    /\ h_response' = ErrorResponse
    /\ h_pc' = "done"
    /\ UNCHANGED <<h_env, h_object, h_now, h_papers, h_new, h_relevant,
                   h_calls, h_results, h_raised_at, h_build, h_start_object,
                   h_prev, h_runs, notH>>

\* The invocation is over; the schedule starts the next one later.
HEnd ==
    /\ h_pc = "done"
    /\ h_prev' = [ids |-> h_new, day |-> h_now,
                  unsent |-> h_raised_at = "notify"]
    /\ h_pc' = "idle"
    /\ UNCHANGED <<h_env, h_object, h_now, h_papers, h_new, h_relevant,
                   h_calls, h_results, h_raised_at, h_build, h_response,
                   h_start_object, h_runs, notH>>

HandlerNext ==
    \/ HTick
    \/ HStart
    \/ HConfig
    \/ HSearch
    \/ HFilter
    \/ HScore
    \/ HUpdate
    \/ HEmail
    \/ HTeams
    \/ HCheck
    \/ HReturnEarly
    \/ HReturn
    \/ HErrBuild
    \/ HErrEmail
    \/ HErrTeams
    \/ HRespond
    \/ HEnd

(***************************************************************************)
(* Specifications.                                                         *)
(***************************************************************************)
\* The parts that a specification does not exercise stay as constructed.
OtherInit == BlockInit /\ LLMInit /\ ConcInit /\ EmailInit /\ StInit
    /\ SearchInit /\ HandlerInit

Init == TeamsInit /\ StoreInit /\ OtherInit

Next == TeamsNext

Spec == Init /\ [][Next]_vars

\* One invocation runs to its end: the code has no blocking step besides
\* the bounded-timeout post.
FairSpec == Spec /\ WF_vars(Next)

\* The pipeline runs with the default translate_target_language.
StoreOnlyInit ==
    TeamsInit /\ target_language = "en" /\ StoreInit /\ OtherInit

StoreSpec == StoreOnlyInit /\ [][StoreNext]_vars

\* The rendering of one paper container.
BlockSpec == StoreOnlyInit /\ [][BlockNext]_vars

\* The relevance filter.
LLMSpec == StoreOnlyInit /\ [][LLMNext]_vars

\* Two pipeline runs updating seen_papers.json.
ConcSpec == StoreOnlyInit /\ [][ConcNext]_vars

\* The e-mail notifier.
EmailSpec == StoreOnlyInit /\ [][EmailNext]_vars

\* S3Storage called over time.
StorageSpec == StoreOnlyInit /\ [][StNext]_vars

\* The search over several topics.
SearchSpec == StoreOnlyInit /\ [][SearchNext]_vars

\* lambda_handler, run after run.
HandlerSpec == StoreOnlyInit /\ [][HandlerNext]_vars

\* The Teams notifier with steps that raise.
FaultSpec == Init /\ [][FaultNext]_vars

\* The Teams notifier with a clock that advances during the call.
ClockSpec == Init /\ [][ClockNext]_vars

(***************************************************************************)
(* Properties of the Teams notifier.                                       *)
(***************************************************************************)
\* The serialized size of the card for the first k of `items`.
SizeOfPrefix(items, topics, k) ==
    PayloadSize(GeneratePapersCard(Prefix(items, k), topics, Len(items), 0))

Monotone(items, topics) ==
    \A k \in 0..(Len(items) - 1) :
        SizeOfPrefix(items, topics, k) <= SizeOfPrefix(items, topics, k + 1)

WithinLimit(items, topics, k) ==
    SizeOfPrefix(items, topics, k) <= MAX_PAYLOAD_SIZE_BYTES

MaxFitting(items, topics, k) ==
    /\ k \in 0..Len(items)
    /\ WithinLimit(items, topics, k)
    /\ k < Len(items) => ~WithinLimit(items, topics, k + 1)
    /\ \A j \in 0..Len(items) : WithinLimit(items, topics, j) => j <= k

\* The search has returned in a call with a non-empty list.
Searched == pc \in {"delivering", "done"} /\ relevant_papers # <<>>

\* C1: for every list of n >= 0 items whose card size is non-decreasing in
\* the prefix length and whose empty card fits, _find_optimal_paper_count
\* returns the maximal k in 0..n whose card fits, and the card for k+1 does
\* not fit when k < n.  Checked for every prefix of the translated list as
\* the function's input, and for the count the running search returns.
C1_MaximalFittingCount ==
    /\ \A n \in 0..Len(translated_papers) :
         LET items == Prefix(translated_papers, n)
         IN  (Monotone(items, research_topics)
              /\ WithinLimit(items, research_topics, 0))
             => MaxFitting(items, research_topics,
                           FindOptimalPaperCount(items, research_topics))
    /\ Searched =>
         /\ optimal_count = FindOptimalPaperCount(translated_papers, research_topics)
         /\ (Monotone(translated_papers, research_topics)
             /\ WithinLimit(translated_papers, research_topics, 0))
            => MaxFitting(translated_papers, research_topics, optimal_count)

\* A search over three papers that stopped at a proper, non-empty prefix.
C1_Witness ==
    /\ pc = "done"
    /\ Len(translated_papers) = 3
    /\ optimal_count \in 1..2
    /\ render_calls >= 2
    /\ Monotone(translated_papers, research_topics)
    /\ WithinLimit(translated_papers, research_topics, optimal_count)
    /\ ~WithinLimit(translated_papers, research_topics, optimal_count + 1)

\* C2: every payload handed to the webhook transport serializes to at most
\* MAX_PAYLOAD_SIZE_BYTES, for every paper list and topic list.
C2_SentWithinLimit ==
    \A i \in 1..Len(sent) : PayloadSize(sent[i]) <= MAX_PAYLOAD_SIZE_BYTES

\* C3: when the card for one paper already exceeds the limit, the search
\* returns 0 and a card without paper blocks is rendered and sent once; the
\* call returns True exactly when the transport succeeded.
C3_NothingFitsStillSends ==
    (relevant_papers # <<>>
     /\ Len(translated_papers) = Len(relevant_papers)
     /\ ~WithinLimit(translated_papers, research_topics, 1))
    => /\ FindOptimalPaperCount(translated_papers, research_topics) = 0
       /\ Searched => (optimal_count = 0 /\ card_content.blocks = <<>>)
       /\ pc = "done" =>
            /\ Len(sent) = 1
            /\ sent[1].blocks = <<>>
            /\ sent[1].header.numbers = <<0, Len(relevant_papers)>>
            /\ result = (IF transport_outcome = "ok" THEN "True" ELSE "False")

C3_Witness ==
    /\ pc = "done"
    /\ Len(relevant_papers) >= 2
    /\ ~WithinLimit(translated_papers, research_topics, 1)
    /\ WithinLimit(translated_papers, research_topics, 0)
    /\ Len(sent) = 1
    /\ sent[1].blocks = <<>>
    /\ result = "True"

\* C4: a call with an empty paper list returns True without any transport
\* call, translation call or render/measure probe.
C4_EmptyListNoEffect ==
    (pc = "done" /\ relevant_papers = <<>>)
    => /\ result = "True"
       /\ sent = <<>>
       /\ transport_outcome = "none"
       /\ translate_calls = 0
       /\ service_log = <<>>
       /\ render_calls = 0
       /\ probed = {}

C4_Witness ==
    /\ pc = "done"
    /\ relevant_papers = <<>>
    /\ research_topics # <<>>
    /\ result = "True"

\* C5: a failed transport makes the call return False, and one call posts
\* to the webhook at most once whatever the outcome.
C5_FailureNoRetry ==
    /\ Len(sent) <= 1
    /\ (pc = "done" /\ transport_outcome \in {"http_error", "network_error", "other_error"})
       => (result = "False" /\ Len(sent) = 1)

C5_Witness ==
    /\ pc = "done"
    /\ transport_outcome = "http_error"
    /\ Len(sent) = 1
    /\ result = "False"

\* The dispatcher's states.  While the abstracts are being translated the
\* notification items are not complete yet and the dispatcher is still Idle.
DispatcherStates == <<"Idle", "Searching", "Delivering", "Done">>

\* C6: a call with a non-empty list passes Idle, Searching, Delivering, Done
\* in this order and reaches Done; the transport is invoked only after the
\* search has finished, the search is not re-entered once delivery started,
\* and a failed delivery ends in Done with the result False.
C6_Order ==
    /\ relevant_papers # <<>> =>
         /\ Len(history) \in 1..4
         /\ history = Prefix(DispatcherStates, Len(history))
         /\ history[Len(history)] =
              (CASE pc = "translating" -> "Idle"
                 [] pc = "searching"   -> "Searching"
                 [] pc = "delivering"  -> "Delivering"
                 [] OTHER              -> "Done")
    /\ sent # <<>> => (pc = "done" /\ ~SearchContinues(ok, ng))
    /\ (pc = "done" /\ relevant_papers # <<>> /\ transport_outcome # "ok")
       => result = "False"

C6_NoWayBack ==
    /\ pc = "delivering" => (pc' = "done" /\ probed' = probed
                             /\ ok' = ok /\ ng' = ng
                             /\ render_calls' = render_calls)
    /\ pc = "done" => pc' = "idle"
    /\ pc = "searching" => pc' \in {"searching", "delivering"}

C6_StateMachine ==
    /\ []C6_Order
    /\ [][C6_NoWayBack]_vars
    /\ (pc = "translating") ~> (pc = "done")

C6_Witness ==
    /\ pc = "done"
    /\ history = DispatcherStates
    /\ transport_outcome = "network_error"
    /\ result = "False"

\* C7: the header of the card for the first k of n items names both k and n
\* when k < n and only k when k = n, for every k in 0..n and for the card
\* that is sent.
HeaderFor(k, n, header) ==
    IF k < n THEN header.numbers = <<k, n>> ELSE header.numbers = <<k>>

C7_HeaderCounts ==
    /\ \A k \in 0..Len(translated_papers) :
         HeaderFor(k, Len(translated_papers),
                   GeneratePapersCard(Prefix(translated_papers, k), research_topics,
                                      Len(translated_papers), clock).header)
    /\ render_calls > 0 =>
         HeaderFor(Len(card_content.blocks), Len(relevant_papers), card_content.header)
    /\ \A i \in 1..Len(sent) :
         HeaderFor(Len(sent[i].blocks), Len(relevant_papers), sent[i].header)

C7_Witness ==
    /\ pc = "done"
    /\ Len(sent) = 1
    /\ Len(sent[1].blocks) = 1
    /\ sent[1].header.numbers = <<1, 3>>

\* C8: in one call over n papers translate_text is called once per paper,
\* n times in all, before the first render; no probe and no final render
\* goes with a further translate_text call.
C8_Counts ==
    /\ translate_calls = Len(translated_papers)
    /\ translate_calls <= Len(relevant_papers)
    /\ (pc \in {"searching", "delivering", "done"} \/ render_calls > 0)
       => translate_calls = Len(relevant_papers)

C8_Step ==
    /\ render_calls' > render_calls =>
         (translate_calls = Len(relevant_papers) /\ translate_calls' = translate_calls)
    /\ (render_calls > 0 /\ pc' # "idle") => translate_calls' = translate_calls

C8_TranslateOncePerPaper == []C8_Counts /\ [][C8_Step]_vars

C8_Witness ==
    /\ pc = "done"
    /\ Len(relevant_papers) = 3
    /\ translate_calls = 3
    /\ Cardinality(probed) = 2
    /\ render_calls = 3

\* C9: when every call of the translation service raises, each translated
\* abstract equals the paper's original abstract, and the call returns True
\* whenever the transport succeeds.
AllServiceCallsFailed ==
    \A i \in 1..Len(service_log) : service_log[i] = "error"

C9_TranslationFailureFallsBack ==
    AllServiceCallsFailed
    => /\ \A i \in 1..Len(translated_papers) :
            translated_papers[i].translated_abstract
              = translated_papers[i].paper.summary
       /\ (pc = "done" /\ transport_outcome = "ok") => result = "True"

C9_Witness ==
    /\ pc = "done"
    /\ Len(service_log) >= 2
    /\ AllServiceCallsFailed
    /\ transport_outcome = "ok"
    /\ result = "True"

(***************************************************************************)
(* Properties of the seen-paper store.                                     *)
(***************************************************************************)
\* C10: over runs less than 30 days apart, an id passed on as new in one
\* completed run is filtered out in every later run, whether or not an S3
\* load or save failed.
C10_NoPaperNewTwice == spaced => repeated = {}

(***************************************************************************)
(* Further properties of the Teams notifier.                               *)
(***************************************************************************)
\* The least e with 2^e >= m, for m >= 1: ceil(log2(m)).
RECURSIVE CeilLog2(_)
CeilLog2(m) == IF m <= 1 THEN 0 ELSE 1 + CeilLog2((m + 1) \div 2)

\* C11: _find_optimal_paper_count terminates, and for n items it makes at
\* most ceil(log2(n+1)) render+measure probes, none for n = 0.
C11_ProbeBound ==
    /\ FindOptimalProbes(<<>>, research_topics) = 0
    /\ \A n \in 0..Len(translated_papers) :
         FindOptimalProbes(Prefix(translated_papers, n), research_topics)
           <= CeilLog2(n + 1)
    /\ Cardinality(probed) <= CeilLog2(Len(relevant_papers) + 1)
    /\ pc \in {"searching", "delivering", "done"} =>
         /\ render_calls <= CeilLog2(Len(relevant_papers) + 1) + 1
         /\ Cardinality(probed)
              <= FindOptimalProbes(translated_papers, research_topics)
    /\ Searched =>
         Cardinality(probed) = FindOptimalProbes(translated_papers, research_topics)

C11_LogarithmicSearch ==
    /\ []C11_ProbeBound
    /\ (pc = "searching") ~> (pc = "delivering")

C11_Witness ==
    /\ pc = "delivering"
    /\ Len(translated_papers) = 3
    /\ Cardinality(probed) = 2
    /\ optimal_count = 3

\* C17: the serialized size of the card is non-decreasing in the number k
\* of papers shown, although the header changes its wording between k < n
\* and k = n; the sizes the search measured are ordered like their counts.
C17_SizeNonDecreasing ==
    /\ Monotone(translated_papers, research_topics)
    /\ \A p \in measured : \A q \in measured :
         p[1] <= q[1] => p[2] <= q[2]

C17_Witness ==
    /\ Len(translated_papers) = 3
    /\ HeaderBytes(HeaderText(2, 3)) > HeaderBytes(HeaderText(3, 3))
    /\ \E p \in measured : \E q \in measured :
         p[1] = 2 /\ q[1] = 3 /\ p[2] < q[2]

\* The card shows the first k items of the call, in their order, each with
\* the translated abstract prepared for it.
ShowsFirst(card, k) ==
    /\ Len(card.blocks) = k
    /\ k <= Len(translated_papers)
    /\ \A i \in 1..k :
         /\ card.blocks[i].paper = relevant_papers[i].id
         /\ card.blocks[i].abstract = translated_papers[i].translated_abstract

\* C18: translated_papers pairs every paper with its own translation in
\* input order, and every card probed or sent holds exactly the first k
\* items in input order, each with its matching translated abstract.
C18_OrderPreserved ==
    /\ Len(translated_papers) <= Len(relevant_papers)
    /\ \A i \in 1..Len(translated_papers) :
         /\ translated_papers[i].paper = relevant_papers[i]
         /\ \E response \in ServiceResponses :
              translated_papers[i].translated_abstract =
                TranslateText(relevant_papers[i].summary, target_language,
                              response).text
    /\ (pc = "searching" /\ probed # {}) =>
         \E k \in probed : ShowsFirst(card_content, k)
    /\ Searched => ShowsFirst(card_content, optimal_count)
    /\ \A j \in 1..Len(sent) : ShowsFirst(sent[j], optimal_count)

C18_Witness ==
    /\ Len(relevant_papers) = 3
    /\ optimal_count = 2
    /\ Len(sent) = 1
    /\ sent[1].blocks[1].abstract # relevant_papers[1].summary
    /\ sent[1].blocks[2].abstract = relevant_papers[2].summary
    /\ relevant_papers[1].summary # relevant_papers[2].summary

\* C12: send_paper_notification never propagates an exception: a failure
\* in translation preparation, in the search, in rendering or in the
\* transport yields False, and a failure before delivery leaves the
\* transport uncalled.
C12_NoExceptionEscapes ==
    /\ result \in {"None", "True", "False"}
    /\ pc = "done" => result \in {"True", "False"}
    /\ raised # "none" =>
         /\ pc = "done"
         /\ result = "False"
         /\ sent = <<>>
         /\ transport_outcome = "none"
    /\ transport_outcome \notin {"none", "ok"} => result = "False"

C12_Witness ==
    /\ raised = "search"
    /\ probed # {}
    /\ result = "False"
    /\ sent = <<>>

\* The probe of the search that rendered the prefix the final render
\* renders again: same items, same topics, same total.
SameInputProbes ==
    IF Searched
    THEN { c \in probe_cards : Len(c.blocks) = optimal_count }
    ELSE {}

Unstamped(card) == [card EXCEPT !.generated_at = 0]

\* C13 as stated: the card of the last fitting probe and the card rendered
\* again for sending are identical.
C13_ByteIdentical ==
    \A c \in SameInputProbes : c = card_content

\* C13, amended: two renders of the same items, topics and total are
\* identical up to the date line and the footer timestamp, have the same
\* serialized size, and are identical when the clock reads the same.
C13_IdenticalUpToTimestamp ==
    \A c \in SameInputProbes :
        /\ Unstamped(c) = Unstamped(card_content)
        /\ PayloadSize(c) = PayloadSize(card_content)
        /\ c.generated_at <= card_content.generated_at
        /\ c.generated_at = card_content.generated_at => c = card_content

C13_Witness ==
    /\ pc = "delivering"
    /\ optimal_count = 2
    /\ Len(relevant_papers) = 3
    /\ \E c \in SameInputProbes : c.generated_at < card_content.generated_at

(***************************************************************************)
(* Properties of one paper container.                                      *)
(***************************************************************************)
\* C19: the container of a rendered item lists all authors of the paper,
\* the full translated abstract, the first 3 key topics at most, in their
\* order, and the "high" indicator exactly when relevance_score >= 0.8.
C19_BlockContent ==
    block # NoBlock =>
        /\ block.authors = item.paper.authors
        /\ block.abstract = item.translated_abstract
        /\ Len(block.topics) <= 3
        /\ Len(block.topics) = Min(3, Len(item.paper.key_topics))
        /\ \A j \in 1..Len(block.topics) :
             block.topics[j] = item.paper.key_topics[j]
        /\ block.score_emoji \in {"green", "yellow"}
        /\ block.score_emoji = "green" <=> item.paper.relevance_score >= 80

C19_Witness ==
    /\ block # NoBlock
    /\ Len(item.paper.authors) = 4
    /\ Len(block.authors) = 4
    /\ Len(item.paper.key_topics) = 5
    /\ block.topics = <<5, 4, 3>>
    /\ item.paper.relevance_score = 80
    /\ block.score_emoji = "green"

(***************************************************************************)
(* Properties of the relevance filter.                                     *)
(***************************************************************************)
\* The scoring of this evaluation failed: Bedrock raised, or its response
\* could not be parsed into a score.
ScoringFailed(e) == e.relevance.relevance_reason # "given"

Range(seq) == { seq[j] : j \in 1..Len(seq) }

\* C14: a paper whose scoring failed gets is_relevant = False and is never
\* in the result of filter_relevant_papers.
C14_FailedScoringNotRelevant ==
    /\ \A e \in Range(results) : ScoringFailed(e) => ~e.relevance.is_relevant
    /\ \A e \in Range(filtered) : ~ScoringFailed(e)

\* C20: filter_relevant_papers returns at most max_papers pairs, all of
\* them relevant, in non-increasing order of relevance_score, and no
\* relevant paper left out has a strictly higher score than a returned one.
C20_TopRelevant ==
    llm_pc = "done" =>
        /\ Len(filtered) <= max_papers
        /\ Range(filtered) \subseteq Range(results)
        /\ \A j \in 1..Len(filtered) : \A k \in 1..Len(filtered) :
             /\ filtered[j].relevance.is_relevant
             /\ j < k => filtered[j].relevance.relevance_score
                           >= filtered[k].relevance.relevance_score
             /\ j # k => filtered[j].paper # filtered[k].paper
        /\ \A e \in Range(results) \ Range(filtered) :
             e.relevance.is_relevant =>
               /\ Len(filtered) = max_papers
               /\ \A f \in Range(filtered) :
                    e.relevance.relevance_score <= f.relevance.relevance_score

C20_Witness ==
    /\ llm_pc = "done"
    /\ Len(results) = 3
    /\ max_papers = 2
    /\ Len(filtered) = 2
    /\ filtered[1].paper > filtered[2].paper
    /\ filtered[1].relevance.relevance_score
         > filtered[2].relevance.relevance_score
    /\ \E e \in Range(results) \ Range(filtered) : e.relevance.is_relevant

(***************************************************************************)
(* Properties of concurrent updates of the seen set.                       *)
(***************************************************************************)
\* C15: when two runs interleave their update_seen_papers calls and both
\* complete without a storage failure, the stored seen set contains the
\* ids added by both runs.
C15_NoLostUpdate ==
    (/\ \A r \in PipelineRuns : upd_pc[r] = "done" /\ upd_ret[r]
     /\ upd_faults = {})
    => \A r \in PipelineRuns : upd_new[r] \subseteq Ids(shared_object)

(***************************************************************************)
(* Properties of the e-mail notifier.                                      *)
(***************************************************************************)
\* C16: in one EmailNotifier.send_paper_notification call the translation
\* service is called at most once per paper, although the message has an
\* HTML body and a plain-text body.
C16_EmailTranslatesOnce ==
    \A i \in 1..Len(em_service_calls) : em_service_calls[i] <= 1

(***************************************************************************)
(* The translator and the loop of the search, step by step.                *)
(***************************************************************************)
\* What translate_text(text) may do under target language `target`, given
\* the text it returned and the service calls it made.
TranslateContract(text, target, out) ==
    IF text.blank \/ target = "en"
    THEN out.service = <<>> /\ out.text = text
    ELSE \/ out.service = <<"ok">> /\ out.text.lang = target
                                   /\ out.text.bytes \in TranslatedBytes
         \/ out.service = <<"error">> /\ out.text = text

\* A step in which translate_text is called for the next paper obeys the
\* contract, seen through the locals and the service log.
C29_Step ==
    translate_calls' = translate_calls + 1 =>
        LET i == translate_calls + 1
        IN  /\ Len(translated_papers') = i
            /\ Len(service_log') >= Len(service_log)
            /\ TranslateContract(
                 relevant_papers[i].summary, target_language,
                 [text    |-> translated_papers'[i].translated_abstract,
                  service |-> SubSeq(service_log', Len(service_log) + 1,
                                     Len(service_log'))])

\* C29: translate_text makes no service call and returns its argument when
\* the text is empty or whitespace-only or the target language is 'en';
\* otherwise it makes exactly one call and returns the service's text or,
\* when the call fails, the original text.
C29_TranslateTextContract ==
    /\ [](\A text \in Summaries : \A target \in Languages :
            \A response \in ServiceResponses :
              TranslateContract(text, target,
                                TranslateText(text, target, response)))
    /\ [][C29_Step]_vars

C29_Witness ==
    /\ target_language = "ja"
    /\ translate_calls = 3
    /\ relevant_papers[1].summary.blank
    /\ ~relevant_papers[2].summary.blank
    /\ ~relevant_papers[3].summary.blank
    /\ service_log = <<"ok", "error">>
    /\ translated_papers[3].translated_abstract = relevant_papers[3].summary

\* The probes made so far whose payload fitted, and those whose did not.
FittedProbes == { p[1] : p \in { q \in measured : Fits(q[2]) } }

UnfitProbes == { p[1] : p \in { q \in measured : ~Fits(q[2]) } }

C30_Bounds ==
    (pc = "searching" /\ Len(relevant_papers) >= 1) =>
        LET n == Len(translated_papers)
        IN  /\ 0 <= ok /\ ok < ng /\ ng <= n + 1
            /\ probed \subseteq 1..n
            /\ probed = FittedProbes \cup UnfitProbes
            /\ render_calls = Cardinality(probed)
            /\ ok = 0 \/ ok \in FittedProbes
            /\ ng = n + 1 \/ ng \in UnfitProbes

C30_Step ==
    (pc = "searching" /\ render_calls' = render_calls + 1 /\ pc' = "searching") =>
        \E mid \in 1..Len(translated_papers) :
            /\ ok < mid /\ mid < ng
            /\ mid \notin probed
            /\ probed' = probed \cup {mid}
            /\ \/ ok' = mid /\ ng' = ng
               \/ ok' = ok /\ ng' = mid

\* C30: loop invariant of _find_optimal_paper_count for n >= 1:
\* 0 <= ok < ng <= n+1; every probed mid has ok < mid < ng and 1 <= mid <= n;
\* no prefix length is probed twice; ok is 0 or a length whose probe fitted;
\* ng is n+1 or a length whose probe did not fit.
C30_LoopInvariant == []C30_Bounds /\ [][C30_Step]_vars

C30_Witness ==
    /\ pc = "searching"
    /\ Len(translated_papers) = 3
    /\ ok = 2
    /\ ng = 3
    /\ probed = {2, 3}

(***************************************************************************)
(* The relevance flag and the threshold.                                   *)
(***************************************************************************)
\* C21: the is_relevant flag of a parsed evaluation is the collaborator's
\* is_highly_relevant when the response has it and (relevance_score >=
\* threshold) otherwise, also for the fallback score of a parse failure;
\* consequently every paper returned by filter_relevant_papers has
\* relevance_score >= threshold.
C21_ThresholdIsMinimum ==
    /\ \A response \in { r \in ScorerResponses :
                           r.kind \in {"object", "unparsable"} } :
         \A thr \in Thresholds :
           LET relevance == ParseEvaluationResult(response, thr)
           IN  relevance.is_relevant =
                 IF response.kind = "object" /\ response.flag # "absent"
                 THEN response.flag = "true"
                 ELSE relevance.relevance_score >= thr
    /\ \A e \in Range(filtered) : e.relevance.relevance_score >= threshold

(***************************************************************************)
(* Properties of S3Storage over time.                                      *)
(***************************************************************************)
\* C22: an id that was recorded more than 30 days ago and has not been
\* passed to an update since is not in the set load_seen_papers returns and
\* is no longer in seen_papers.json after that load.
C22_OldIdsExpire ==
    (st_last.kind = "load" /\ st_last.faults = {}) =>
        \A id \in PaperIds :
            (st_recorded[id] >= 0 /\ st_now - st_recorded[id] > RETENTION_DAYS)
            => (id \notin st_last.ids /\ id \notin Ids(st_object))

\* C23: after update_seen_papers(new_ids) returns True the stored set holds
\* every unexpired id that was stored before the call and every id of
\* new_ids, whatever the load inside the call did.
C23_UpdateOnlyAdds ==
    (st_last.kind = "update" /\ st_last.ret) =>
        (Unexpired(st_last.before, st_now) \cup st_last.new_paper_ids)
          \subseteq Ids(st_object)

(***************************************************************************)
(* Properties of the search over several topics.                           *)
(***************************************************************************)
\* The ids topic number t returned (none when its search raised).
IdsOfTopic(t) ==
    IF sr_log[t].raised
    THEN {}
    ELSE { sr_log[t].papers[j].id : j \in 1..Len(sr_log[t].papers) }

\* C24: search_multiple_topics returns no two papers with the same id,
\* keeps the first occurrence across topics, orders the papers by
\* publication date, newest first, and skips a topic whose search raises
\* without losing the papers of the other topics.
C24_DedupSortSkip ==
    sr_pc = "done" =>
        /\ Len(sr_log) = sr_topics
        /\ \A j \in 1..Len(sr_result) : \A k \in 1..Len(sr_result) :
             /\ j # k => sr_result[j].id # sr_result[k].id
             /\ j < k => sr_result[j].published >= sr_result[k].published
        /\ { sr_result[j].id : j \in 1..Len(sr_result) }
             = UNION { IdsOfTopic(t) : t \in 1..Len(sr_log) }
        /\ \A j \in 1..Len(sr_result) :
             /\ sr_result[j].id \in IdsOfTopic(sr_result[j].topic)
             /\ \A t \in 1..(sr_result[j].topic - 1) :
                  sr_result[j].id \notin IdsOfTopic(t)

C24_Witness ==
    /\ sr_pc = "done"
    /\ Len(sr_log) = 3
    /\ ~sr_log[1].raised
    /\ sr_log[2].raised
    /\ ~sr_log[3].raised
    /\ IdsOfTopic(1) \cap IdsOfTopic(3) # {}
    /\ Len(sr_result) = 3
    /\ sr_result[1].topic = 1
    /\ sr_result[2].topic = 3


\* The calls of one collaborator in this run.
Count(calls, name) == Cardinality({ j \in 1..Len(calls) : calls[j] = name })

\* The notifiers that lambda_handler built from its configuration.
ConfiguredNotifiers ==
    (IF GetEnvironmentConfig(h_env).email_recipient THEN {"Email"} ELSE {})
        \cup (IF GetEnvironmentConfig(h_env).teams_webhook_url
              THEN {"Teams"} ELSE {})

\* The run got to "if relevant_papers:" with a non-empty list and has
\* returned.
NotifiedRun ==
    /\ h_pc = "done"
    /\ h_relevant # {}
    /\ "update" \in Range(h_calls)

ConfiguredChannels ==
    (IF h_env.email_recipient THEN {"email_error"} ELSE {})
        \cup (IF TeamsWebhookUrl(h_env) THEN {"teams_error"} ELSE {})

NothingNew ==
    /\ h_raised_at = "none"
    /\ "search" \in Range(h_calls)
    /\ h_pc # "filter"
    /\ \/ h_papers = {}
       \/ "filter" \in Range(h_calls) /\ h_new = {}

\* C27: when the search returns no papers, or every found paper is
\* already seen, lambda_handler returns statusCode 200 with
\* papers_processed = 0, scores nothing, notifies nobody, and leaves
\* seen_papers.json as it was when the run started.
C27_NothingNewNothingDone ==
    NothingNew =>
        /\ h_pc \in {"return_early", "done", "idle"}
        /\ h_pc # "return_early" => h_response = EarlyResponse
        /\ Range(h_calls) \subseteq {"search", "filter"}
        /\ h_relevant = {}
        /\ h_results = <<>>
        /\ h_object = h_start_object

C27_Witness ==
    /\ NothingNew
    /\ h_pc = "done"
    /\ h_papers = HandlerIds
    /\ h_new = {}
    /\ h_object.exists
    /\ h_now = 20
    /\ h_response.papers_processed = 0


\* The position of the first call of a collaborator in this run, or 0.
FirstCall(calls, name) ==
    IF name \in Range(calls)
    THEN CHOOSE j \in 1..Len(calls) :
           /\ calls[j] = name
           /\ \A k \in 1..(j - 1) : calls[k] # name
    ELSE 0

\* C28: update_seen_papers is called with all new papers before any
\* notifier; and when the previous run, less than 30 days ago, ended with
\* statusCode 500 because all notifications failed, filter_new_papers
\* returns none of that run's new papers as new.
C28_UnsentIdsAreSeen ==
    /\ \A c \in {"email", "teams"} :
         c \in Range(h_calls) =>
             /\ "update" \in Range(h_calls)
             /\ FirstCall(h_calls, "update") < FirstCall(h_calls, c)
    /\ ( /\ h_prev.unsent
         /\ h_now - h_prev.day < RETENTION_DAYS
         /\ h_pc # "idle"
         /\ "filter" \in Range(h_calls) )
       => h_new \cap h_prev.ids = {}

====
